---- MODULE Spec2Model ----
(***************************************************************************)
(* Verification model of two subsystems of MASQ Node:                      *)
(*   - the payment adjuster (node/src/accountant/payment_adjuster.rs)      *)
(*   - the PCP / PMP automap transactors with their housekeeping thread    *)
(*     (automap/src/comm_layer/pcp.rs, pmp.rs)                             *)
(* Each subsystem has its own specification (SpecAdjuster, SpecAutomap);   *)
(* the variables of the other subsystem stay at their idle values.         *)
(***************************************************************************)
EXTENDS Integers, Sequences, FiniteSets, TLC

\* ------------------------------------------------------------------------
\* Bounds of the model
\* ------------------------------------------------------------------------
\* largest balance_wei of an input account
MaxBalance == 6
\* largest age (seconds since last_paid_timestamp) of an input account
MaxAge == 2
\* wallets of the input accounts, in insertion order
Wallets == {1, 2, 3}
\* largest lifetime (seconds) a caller requests or the router approves
MaxLifetime == 2
\* most commands waiting in the command channel
MaxQueue == 1
\* largest transaction fee balance of the consuming wallet, in units of
\* 500,000,000 wei (half a gwei)
MaxGas == 8

\* Option<T>: the empty sequence is None, a one-element sequence is Some(x)
None == <<>>
Some(x) == <<x>>

VARIABLES
    \* ---- payment adjuster ----
    qualified_payables,     \* input of adjust_payments: Seq of PayableAccount
    cw_masq_balance,        \* service fee balance of the consuming wallet in the setup
    adjustment,             \* None (Adjustment::MasqToken) or Some(limited_count_from_gas)
    adj_pc,                 \* "idle", "running", "done", "panicked"
    rr_already,             \* run_recursively: already_fully_qualified_accounts
    rr_balance,             \* run_recursively: masq_tokens_wei of collected_setup_data
    rr_gas_opt,             \* run_recursively: gas_limitation_opt
    rr_payables,            \* run_recursively: qualified_payables of this call
    adjusted_accounts,      \* accounts of the OutcomingPaymentsInstructions
    disqualified_log,       \* wallets logged by log_info_for_disqualified_accounts
    prioritized_log,        \* wallets selected by the priority override so far
    rr_depth,               \* number of run_recursively calls made by this run
    \* ---- automap transactor (PcpTransactor / PmpTransactor) ----
    protocol,                   \* "PCP" or "PMP": which Transactor this is
    change_handler_config_opt,  \* Option<ChangeHandlerConfig> stored by add_mapping
    housekeeper_commander_opt,  \* TRUE iff Some(sender)
    join_handle_opt,            \* TRUE iff Some(join handle)
    caller_pc,                  \* "idle", "joining" inside stop_housekeeping_thread,
                                \* or the message of the panic that ended the caller
    \* the three last_* records and last_iter describe the step just taken and are
    \* None after any other step
    last_facade_txn,            \* Option: the mapping transaction of add/delete_mapping
    last_start,                 \* Option: result of start_housekeeping_thread
    last_stop,                  \* Option: result of stop_housekeeping_thread
    started_handler,            \* the change handler given to the last successful start
    start_outstanding,          \* a start succeeded and no stop has been called since
    add_mapping_succeeded,      \* some add_mapping call on this Transactor returned Ok
    abandoned_threads,          \* threads still alive when another was spawned over them
    \* ---- housekeeping thread (thread_guts) ----
    thread_state,               \* "none", "spawned", "running", "finished", "panicked"
    th_config,                  \* the thread's own change_handler_config
    th_handler,                 \* the change handler the thread owns
    since_last_remapped,        \* last_remapped.elapsed() in ms, saturating at ElapsedCap
    cmd_channel,                \* commands sent and not yet received
    last_iter,                  \* Option: what the loop iteration just taken did
    \* ---- pre-adjustment check (search_for_indispensable_adjustment) ----
    gas_currency_wei,                       \* consuming_wallet_balances.gas_currency_wei
    estimated_gas_limit_per_transaction,    \* field of FinancialAndTechDetails
    desired_gas_price_gwei,                 \* field of FinancialAndTechDetails
    search_pc,                              \* "idle", "ready", "returned", "panicked"
    search_result                           \* Option: what the check returned

adjVars == <<qualified_payables, cw_masq_balance, adjustment, adj_pc, rr_already,
             rr_balance, rr_gas_opt, rr_payables, adjusted_accounts,
             disqualified_log, prioritized_log, rr_depth>>

autoVars == <<protocol, change_handler_config_opt, housekeeper_commander_opt,
              join_handle_opt, caller_pc, last_facade_txn, last_start, last_stop,
              started_handler, start_outstanding, add_mapping_succeeded,
              abandoned_threads, thread_state, th_config, th_handler,
              since_last_remapped, cmd_channel, last_iter>>

searchVars == <<gas_currency_wei, estimated_gas_limit_per_transaction,
                desired_gas_price_gwei, search_pc, search_result>>

vars == <<adjVars, autoVars, searchVars>>

\* ------------------------------------------------------------------------
\* Generic helpers
\* ------------------------------------------------------------------------
RECURSIVE SumInts(_)
SumInts(s) == IF s = <<>> THEN 0 ELSE Head(s) + SumInts(Tail(s))

MapSeq(s, F(_)) == [i \in 1..Len(s) |-> F(s[i])]

SumSeq(s, F(_)) == SumInts(MapSeq(s, F))

FilterSeq(s, P(_)) == SelectSeq(s, P)

Range(s) == {s[i] : i \in DOMAIN s}

RECURSIVE Pow(_, _)
Pow(b, e) == IF e = 0 THEN 1 ELSE b * Pow(b, e - 1)

Max(a, b) == IF a >= b THEN a ELSE b

\* ------------------------------------------------------------------------
\* Payment adjuster: pure functions
\* ------------------------------------------------------------------------
BalanceOf(account) == account.balance_wei

\* sum_as over the balances of a list of accounts
sum_as_balances(accounts) == SumSeq(accounts, BalanceOf)

\* log_10: number of decimal digits
RECURSIVE log_10(_)
log_10(num) == IF num >= 10 THEN 1 + log_10(num \div 10) ELSE 1

\* (elapsed_sec as f64).sqrt().ceil()
RECURSIVE CeilSqrtFrom(_, _)
CeilSqrtFrom(n, d) == IF d * d >= n THEN d ELSE CeilSqrtFrom(n, d + 1)
CeilSqrt(n) == CeilSqrtFrom(n, 0)

\* time_criteria_closure: elapsed^4 / ceil(sqrt(elapsed))
time_criterion(account) == Pow(account.age, 4) \div CeilSqrt(account.age)

\* balance_criteria_closure: balance * digits^3
balance_criterion(account) == account.balance_wei * Pow(log_10(account.balance_wei), 3)

WithCriteria(account) ==
    [criteria |-> 0 + time_criterion(account) + balance_criterion(account),
     account  |-> account]

\* sort_in_descendant_order_by_weights: stable sort, heaviest first
RECURSIVE InsertByWeight(_, _)
InsertByWeight(sorted, wa) ==
    IF sorted = <<>> THEN <<wa>>
    ELSE IF Head(sorted).criteria >= wa.criteria
         THEN <<Head(sorted)>> \o InsertByWeight(Tail(sorted), wa)
         ELSE <<wa>> \o sorted

RECURSIVE sort_in_descendant_order_by_weights(_)
sort_in_descendant_order_by_weights(unsorted) ==
    IF unsorted = <<>> THEN <<>>
    ELSE InsertByWeight(
           sort_in_descendant_order_by_weights(SubSeq(unsorted, 1, Len(unsorted) - 1)),
           unsorted[Len(unsorted)])

\* initialize_zero_criteria followed by apply_criteria
apply_criteria(payables) ==
    sort_in_descendant_order_by_weights(MapSeq(payables, WithCriteria))

cut_back_by_gas_count_limit_from_the_end(weights_and_accounts, limit) ==
    SubSeq(weights_and_accounts,
           IF limit < Len(weights_and_accounts)
           THEN Len(weights_and_accounts) - limit + 1 ELSE 1,
           Len(weights_and_accounts))

cut_back_by_gas_count_limit(weights_and_accounts, limit) ==
    SubSeq(weights_and_accounts, 1,
           IF limit < Len(weights_and_accounts) THEN limit ELSE Len(weights_and_accounts))

AccountOf(wa) == wa.account
CriteriaOf(wa) == wa.criteria

rebuild_accounts(criteria_and_accounts) == MapSeq(criteria_and_accounts, AccountOf)

compute_totals(accounts_with_individual_criteria) ==
    [required_balance_total |-> SumSeq(accounts_with_individual_criteria,
                                       LAMBDA wa : wa.account.balance_wei),
     criteria_total         |-> SumSeq(accounts_with_individual_criteria, CriteriaOf)]

find_smallest_debt(accounts) ==
    CHOOSE b \in {a.balance_wei : a \in Range(accounts)} :
        \A a \in Range(accounts) : b <= a.balance_wei

find_decent_multiplication_coeff(cw_balance, criteria_sum) ==
    Pow(10, Max(log_10(criteria_sum) - log_10(cw_balance), 0) + 6)


\* filter closure of check_for_prioritized_accounts_that_qualify_without_prolongation
is_prioritized(wa, required_balance_total, criteria_total) ==
    LET balance_ratio   == (required_balance_total * 10000) \div (wa.account.balance_wei * 10000)
        criterion_ratio == (criteria_total * 10000) \div (wa.criteria * 10000)
    IN  balance_ratio > criterion_ratio

\* the wallets to be prioritized; the empty set stands for None
check_for_prioritized_accounts_that_qualify_without_prolongation(accounts_with_individual_criteria, required_balance_total, criteria_total) ==
    {wa.account.wallet : wa \in
        {x \in Range(accounts_with_individual_criteria) :
            is_prioritized(x, required_balance_total, criteria_total)}}

proposed_adjusted_balance(criteria_sum, proportional_fragment_of_cw_balance, multiplication_coeff) ==
    (criteria_sum * proportional_fragment_of_cw_balance) \div multiplication_coeff

\* the test that keeps an account in recreate_accounts_with_proportioned_balances
NotBelowHalfThird(original_balance, proposed) ==
    ((original_balance * 10) \div 3) <= (proposed * 10)

NotBelowHalfStrictly(original_balance, proposed) ==
    ((original_balance * 10) \div 2) < (proposed * 10)

NotBelowHalf(original_balance, proposed) ==
    ((original_balance * 10) \div 2) <= (proposed * 10)

\* the proportional allocation for one account and the two records it can become
ProposedFor(wa, cw_balance, criteria_total) ==
    LET multiplication_coeff == find_decent_multiplication_coeff(cw_balance, criteria_total)
        proportional_fragment_of_cw_balance ==
            (cw_balance * multiplication_coeff) \div criteria_total
    IN  proposed_adjusted_balance(wa.criteria, proportional_fragment_of_cw_balance,
                                  multiplication_coeff)

ReversiblePayableAccount(wa, proposed) ==
    [adjusted_account |-> [wa.account EXCEPT !.balance_wei = proposed],
     former_balance   |-> wa.account.balance_wei]

DisqualifiedPayableAccount(wa, proposed) ==
    [wallet |-> wa.account.wallet,
     proposed_adjusted_balance |-> proposed,
     original_balance |-> wa.account.balance_wei]

recreate_accounts_with_proportioned_balances(accounts_with_individual_criteria, cw_balance, criteria_total) ==
    LET Proposed(wa) == ProposedFor(wa, cw_balance, criteria_total)
        Keeps(wa) == NotBelowHalf(wa.account.balance_wei, Proposed(wa))
        Drops(wa) == ~Keeps(wa)
        Decide(wa) == ReversiblePayableAccount(wa, Proposed(wa))
        Disqualify(wa) == DisqualifiedPayableAccount(wa, Proposed(wa))
    IN  [decided      |-> MapSeq(FilterSeq(accounts_with_individual_criteria, Keeps), Decide),
         disqualified |-> MapSeq(FilterSeq(accounts_with_individual_criteria, Drops),
                                 Disqualify)]

\* From<(ReversiblePayableAccount, DecidedPayableAccountResolution)> for PayableAccount
PayableAccountFrom(decided_account, resolution) ==
    IF resolution = "Finalize"
    THEN decided_account.adjusted_account
    ELSE [decided_account.adjusted_account EXCEPT
             !.balance_wei = decided_account.former_balance]

finalize_decided_accounts(decided_accounts, resolution) ==
    MapSeq(decided_accounts, LAMBDA d : PayableAccountFrom(d, resolution))

\* handle_masq_token_adjustment carrying on with the wrong set of accounts
handle_masq_token_adjustment_retrying_disqualified(cw_balance, accounts_with_individual_criteria) ==
    LET totals == compute_totals(accounts_with_individual_criteria)
        prioritized_wallets ==
            check_for_prioritized_accounts_that_qualify_without_prolongation(
                accounts_with_individual_criteria,
                totals.required_balance_total, totals.criteria_total)
        accounts == MapSeq(accounts_with_individual_criteria, AccountOf)
        proportioned == recreate_accounts_with_proportioned_balances(
                            accounts_with_individual_criteria, cw_balance,
                            totals.criteria_total)
        disqualified_wallets ==
            {proportioned.disqualified[i].wallet : i \in DOMAIN proportioned.disqualified}
    IN  IF prioritized_wallets # {}
        THEN [decided_accounts      |-> FilterSeq(accounts,
                                            LAMBDA a : a.wallet \in prioritized_wallets),
              remaining_accounts    |-> FilterSeq(accounts,
                                            LAMBDA a : a.wallet \notin prioritized_wallets),
              disqualified_accounts |-> <<>>,
              prioritized           |-> prioritized_wallets]
        ELSE IF proportioned.disqualified = <<>>
        THEN [decided_accounts      |-> finalize_decided_accounts(proportioned.decided,
                                                                 "Finalize"),
              remaining_accounts    |-> <<>>,
              disqualified_accounts |-> <<>>,
              prioritized           |-> {}]
        ELSE [decided_accounts      |-> <<>>,
              remaining_accounts    |-> FilterSeq(accounts,
                                            LAMBDA a : a.wallet \in disqualified_wallets),
              disqualified_accounts |-> proportioned.disqualified,
              prioritized           |-> {}]

handle_masq_token_adjustment_keeping_disqualified(cw_balance, accounts_with_individual_criteria) ==
    LET totals == compute_totals(accounts_with_individual_criteria)
        prioritized_wallets ==
            check_for_prioritized_accounts_that_qualify_without_prolongation(
                accounts_with_individual_criteria,
                totals.required_balance_total, totals.criteria_total)
        accounts == MapSeq(accounts_with_individual_criteria, AccountOf)
        proportioned == recreate_accounts_with_proportioned_balances(
                            accounts_with_individual_criteria, cw_balance,
                            totals.criteria_total)
    IN  IF prioritized_wallets # {}
        THEN [decided_accounts      |-> FilterSeq(accounts,
                                            LAMBDA a : a.wallet \in prioritized_wallets),
              remaining_accounts    |-> FilterSeq(accounts,
                                            LAMBDA a : a.wallet \notin prioritized_wallets),
              disqualified_accounts |-> <<>>,
              prioritized           |-> prioritized_wallets]
        ELSE IF proportioned.disqualified = <<>>
        THEN [decided_accounts      |-> finalize_decided_accounts(proportioned.decided,
                                                                 "Finalize"),
              remaining_accounts    |-> <<>>,
              disqualified_accounts |-> <<>>,
              prioritized           |-> {}]
        ELSE [decided_accounts      |-> <<>>,
              remaining_accounts    |-> accounts,
              disqualified_accounts |-> proportioned.disqualified,
              prioritized           |-> {}]

handle_masq_token_adjustment(cw_balance, accounts_with_individual_criteria) ==
    LET totals == compute_totals(accounts_with_individual_criteria)
        prioritized_wallets ==
            check_for_prioritized_accounts_that_qualify_without_prolongation(
                accounts_with_individual_criteria,
                totals.required_balance_total, totals.criteria_total)
        accounts == MapSeq(accounts_with_individual_criteria, AccountOf)
        proportioned == recreate_accounts_with_proportioned_balances(
                            accounts_with_individual_criteria, cw_balance,
                            totals.criteria_total)
    IN  IF prioritized_wallets # {}
        THEN [decided_accounts      |-> FilterSeq(accounts,
                                            LAMBDA a : a.wallet \in prioritized_wallets),
              remaining_accounts    |-> FilterSeq(accounts,
                                            LAMBDA a : a.wallet \notin prioritized_wallets),
              disqualified_accounts |-> <<>>,
              prioritized           |-> prioritized_wallets]
        ELSE IF proportioned.disqualified = <<>>
        THEN [decided_accounts      |-> finalize_decided_accounts(proportioned.decided,
                                                                 "Finalize"),
              remaining_accounts    |-> <<>>,
              disqualified_accounts |-> <<>>,
              prioritized           |-> {}]
        ELSE [decided_accounts      |-> <<>>,
              remaining_accounts    |-> finalize_decided_accounts(proportioned.decided,
                                                                 "Revert"),
              disqualified_accounts |-> proportioned.disqualified,
              prioritized           |-> {}]

\* the amount adjust_cw_balance_in_setup_data subtracts from masq_tokens_wei
subtrahend_total(processed_prioritized, disqualified_accounts) ==
    IF disqualified_accounts # <<>>
    THEN SumSeq(disqualified_accounts, LAMBDA d : d.original_balance)
    ELSE sum_as_balances(processed_prioritized)

\* A negative result stands for the u128 subtraction overflowing: a panic in a
\* build with overflow checks; without them the value wraps to about 2^128 and
\* the checked_mul of the next proportional allocation panics ("mul overflow"),
\* which every continued run reaches, so no output is produced either way.
adjust_cw_balance_in_setup_data_unchanged(masq_tokens_wei, processed_prioritized, disqualified_accounts) ==
    masq_tokens_wei

adjust_cw_balance_in_setup_data(masq_tokens_wei, processed_prioritized, disqualified_accounts) ==
    masq_tokens_wei - subtrahend_total(processed_prioritized, disqualified_accounts)

\* "false" / "true" for Ok(bool), "todo" for the todo!() of the unservable case
check_need_of_masq_balances_adjustment_unless_below(payables, consuming_wallet_balance_wei) ==
    IF sum_as_balances(payables) < consuming_wallet_balance_wei THEN "false"
    ELSE IF find_smallest_debt(payables) > consuming_wallet_balance_wei THEN "todo"
    ELSE "true"

check_need_of_masq_balances_adjustment(payables, consuming_wallet_balance_wei) ==
    IF sum_as_balances(payables) <= consuming_wallet_balance_wei THEN "false"
    ELSE IF find_smallest_debt(payables) > consuming_wallet_balance_wei THEN "todo"
    ELSE "true"

give_job_to_adjustment_workers(gas_limitation_opt, accounts_with_individual_criteria, cw_masq_balance_wei) ==
    IF gas_limitation_opt # None
    THEN LET weighted_accounts_cut_by_gas ==
                 cut_back_by_gas_count_limit(accounts_with_individual_criteria,
                                             gas_limitation_opt[1])
             is_needed == check_need_of_masq_balances_adjustment(
                              rebuild_accounts(weighted_accounts_cut_by_gas),
                              cw_masq_balance_wei)
         IN  CASE is_needed = "true" ->
                    [completion |-> "Continue",
                     iteration_result |-> handle_masq_token_adjustment(
                                              cw_masq_balance_wei,
                                              weighted_accounts_cut_by_gas)]
               [] is_needed = "false" ->
                    [completion |-> "Finished",
                     accounts_adjusted |-> rebuild_accounts(weighted_accounts_cut_by_gas)]
               [] OTHER -> [completion |-> "Panic"]
    ELSE [completion |-> "Continue",
          iteration_result |-> handle_masq_token_adjustment(
                                   cw_masq_balance_wei, accounts_with_individual_criteria)]

\* ------------------------------------------------------------------------
\* Payment adjuster: the pre-adjustment check
\* ------------------------------------------------------------------------
\* wei are counted in units of 500,000,000 wei here, so that the amounts stay
\* small: one gwei is two units
gwei_to_wei(gwei) == gwei * 2

wei_to_gwei(wei) == wei \div 2

\* Result<Option<u16>, AnalysisError>
determine_transactions_count_limit_strictly_above(gas_limit, gas_price_gwei, available_balance_in_minor, required_transactions_count) ==
    LET limiting_max_possible_count ==
            available_balance_in_minor \div gwei_to_wei(gas_limit * gas_price_gwei)
    IN  IF limiting_max_possible_count = 0
        THEN [kind |-> "Err",
              error |-> [name |-> "TransactionFeeBalanceBelowOneTransaction",
                         one_transaction_requirement |-> gas_limit * gas_price_gwei,
                         cw_balance |-> wei_to_gwei(available_balance_in_minor)]]
        ELSE IF limiting_max_possible_count > required_transactions_count
        THEN [kind |-> "Ok", limit_opt |-> None]
        ELSE [kind |-> "Ok", limit_opt |-> Some(limiting_max_possible_count)]

determine_transactions_count_limit_without_zero_check(gas_limit, gas_price_gwei, available_balance_in_minor, required_transactions_count) ==
    LET limiting_max_possible_count ==
            available_balance_in_minor \div gwei_to_wei(gas_limit * gas_price_gwei)
    IN  IF limiting_max_possible_count >= required_transactions_count
        THEN [kind |-> "Ok", limit_opt |-> None]
        ELSE [kind |-> "Ok", limit_opt |-> Some(limiting_max_possible_count)]

determine_transactions_count_limit_by_gas(gas_limit, gas_price_gwei, available_balance_in_minor, required_transactions_count) ==
    LET transaction_fee_required_per_transaction_in_major == gas_limit * gas_price_gwei
        tfrpt_in_minor == gwei_to_wei(transaction_fee_required_per_transaction_in_major)
        limiting_max_possible_count == available_balance_in_minor \div tfrpt_in_minor
    IN  IF limiting_max_possible_count = 0
        THEN [kind |-> "Err",
              error |-> [name |-> "TransactionFeeBalanceBelowOneTransaction",
                         one_transaction_requirement |->
                             transaction_fee_required_per_transaction_in_major,
                         cw_balance |-> wei_to_gwei(available_balance_in_minor)]]
        ELSE IF limiting_max_possible_count >= required_transactions_count
        THEN [kind |-> "Ok", limit_opt |-> None]
        ELSE [kind |-> "Ok", limit_opt |-> Some(limiting_max_possible_count)]

\* Result<Option<Adjustment>, AnalysisError>, or the panic of todo!()
search_for_indispensable_adjustment_masq_first(payables, gas_limit, gas_price_gwei, gas_wei, masq_tokens_wei) ==
    LET by_gas == determine_transactions_count_limit_by_gas(
                      gas_limit, gas_price_gwei, gas_wei, Len(payables))
        required == check_need_of_masq_balances_adjustment(payables, masq_tokens_wei)
    IN  IF by_gas.kind = "Err" THEN by_gas
        ELSE IF required = "true"
        THEN [kind |-> "Ok", adjustment_opt |-> Some([name |-> "MasqToken"])]
        ELSE IF required = "todo" THEN [kind |-> "Panic"]
        ELSE IF by_gas.limit_opt # None
        THEN [kind |-> "Ok",
              adjustment_opt |-> Some([name |-> "TransactionFeeFirstLaterMaybeMasq",
                                       limited_count_from_gas |-> by_gas.limit_opt[1]])]
        ELSE [kind |-> "Ok", adjustment_opt |-> None]

search_for_indispensable_adjustment(payables, gas_limit, gas_price_gwei, gas_wei, masq_tokens_wei) ==
    LET by_gas == determine_transactions_count_limit_by_gas(
                      gas_limit, gas_price_gwei, gas_wei, Len(payables))
        required == check_need_of_masq_balances_adjustment(payables, masq_tokens_wei)
    IN  IF by_gas.kind = "Err" THEN by_gas
        ELSE IF by_gas.limit_opt # None
        THEN [kind |-> "Ok",
              adjustment_opt |-> Some([name |-> "TransactionFeeFirstLaterMaybeMasq",
                                       limited_count_from_gas |-> by_gas.limit_opt[1]])]
        ELSE CASE required = "true" ->
                    [kind |-> "Ok", adjustment_opt |-> Some([name |-> "MasqToken"])]
               [] required = "false" -> [kind |-> "Ok", adjustment_opt |-> None]
               [] OTHER -> [kind |-> "Panic"]

\* ------------------------------------------------------------------------
\* Payment adjuster: adjust_payments / run_recursively
\* ------------------------------------------------------------------------
InputAccounts ==
    UNION {
      {[i \in 1..n |-> [wallet |-> i, balance_wei |-> bals[i], age |-> ages[i]]] :
          bals \in [1..n -> 1..MaxBalance], ages \in [1..n -> 1..MaxAge]} :
      n \in 1..Cardinality(Wallets)}

\* adjust_payments called with a setup: the arguments of the first run_recursively
InitAdjusterVars ==
    /\ qualified_payables \in InputAccounts
    /\ cw_masq_balance \in 1..(sum_as_balances(qualified_payables) + 1)
    /\ adjustment \in {None} \cup {Some(l) : l \in 1..(Len(qualified_payables) - 1)}
    /\ adj_pc = "running"
    /\ rr_already = <<>>
    /\ rr_balance = cw_masq_balance
    /\ rr_gas_opt = adjustment
    /\ rr_payables = qualified_payables
    /\ adjusted_accounts = <<>>
    /\ disqualified_log = {}
    /\ prioritized_log = {}
    /\ rr_depth = 0

IdleAdjuster ==
    /\ qualified_payables = <<>>
    /\ cw_masq_balance = 0
    /\ adjustment = None
    /\ adj_pc = "idle"
    /\ rr_already = <<>>
    /\ rr_balance = 0
    /\ rr_gas_opt = None
    /\ rr_payables = <<>>
    /\ adjusted_accounts = <<>>
    /\ disqualified_log = {}
    /\ prioritized_log = {}
    /\ rr_depth = 0

IdleSearch ==
    /\ gas_currency_wei = 0
    /\ estimated_gas_limit_per_transaction = 1
    /\ desired_gas_price_gwei = 1
    /\ search_pc = "idle"
    /\ search_result = None

\* the setups given to the pre-adjustment check; it reads balances only, so the
\* accounts are all of one age
SearchAccounts ==
    {payables \in InputAccounts : \A i \in DOMAIN payables : payables[i].age = 1}

\* a PayablePaymentSetup is about to be checked
InitSearchVars ==
    /\ qualified_payables \in SearchAccounts
    /\ cw_masq_balance \in 0..(sum_as_balances(qualified_payables) + 1)
    /\ gas_currency_wei \in 0..MaxGas
    /\ estimated_gas_limit_per_transaction \in {1, 2}
    /\ desired_gas_price_gwei \in {1, 2}
    /\ search_pc = "ready"
    /\ search_result = None
    /\ adjustment = None
    /\ adj_pc = "idle"
    /\ rr_already = <<>>
    /\ rr_balance = 0
    /\ rr_gas_opt = None
    /\ rr_payables = <<>>
    /\ adjusted_accounts = <<>>
    /\ disqualified_log = {}
    /\ prioritized_log = {}
    /\ rr_depth = 0

\* PaymentAdjusterReal::search_for_indispensable_adjustment
SearchForIndispensableAdjustment ==
    /\ search_pc = "ready"
    /\ LET result == search_for_indispensable_adjustment(
                         qualified_payables, estimated_gas_limit_per_transaction,
                         desired_gas_price_gwei, gas_currency_wei, cw_masq_balance)
       IN  /\ search_result' = Some(result)
           /\ search_pc' = IF result.kind = "Panic" THEN "panicked" ELSE "returned"
    /\ UNCHANGED <<gas_currency_wei, estimated_gas_limit_per_transaction,
                   desired_gas_price_gwei>>
    /\ UNCHANGED <<adjVars, autoVars>>

\* the outcome of give_job_to_adjustment_workers for the pending call
CurrentJob ==
    give_job_to_adjustment_workers(rr_gas_opt, apply_criteria(rr_payables), rr_balance)

DisqualifiedWallets(iteration_result) ==
    {iteration_result.disqualified_accounts[i].wallet :
        i \in DOMAIN iteration_result.disqualified_accounts}

\* the accounts the recursive call receives as already_fully_qualified_accounts
NextAlreadyFullyQualified(already_fully_qualified_accounts, decided_accounts) ==
    decided_accounts

\* run_recursively, AdjustmentCompletion::Finished: the gas cut-back was enough
RunRecursivelyFinished ==
    /\ adj_pc = "running"
    /\ LET job == CurrentJob IN
        /\ job.completion = "Finished"
        /\ adjusted_accounts' = job.accounts_adjusted
    /\ adj_pc' = "done"
    /\ rr_depth' = rr_depth + 1
    /\ UNCHANGED <<qualified_payables, cw_masq_balance, adjustment, rr_already,
                   rr_balance, rr_gas_opt, rr_payables, disqualified_log, prioritized_log>>
    /\ UNCHANGED <<autoVars, searchVars>>

\* run_recursively, no remaining accounts: the result is assembled and returned
RunRecursivelyReturns ==
    /\ adj_pc = "running"
    /\ LET job == CurrentJob
           r == job.iteration_result
       IN
        /\ job.completion = "Continue"
        /\ r.remaining_accounts = <<>>
        /\ adjusted_accounts' = rr_already \o r.decided_accounts
        /\ disqualified_log' = disqualified_log \cup DisqualifiedWallets(r)
        /\ prioritized_log' = prioritized_log \cup r.prioritized
    /\ adj_pc' = "done"
    /\ rr_depth' = rr_depth + 1
    /\ UNCHANGED <<qualified_payables, cw_masq_balance, adjustment, rr_already,
                   rr_balance, rr_gas_opt, rr_payables>>
    /\ UNCHANGED <<autoVars, searchVars>>

\* run_recursively, remaining accounts: the budget is adjusted and the call recurses
RunRecursivelyRecurses ==
    /\ adj_pc = "running"
    /\ LET job == CurrentJob
           r == job.iteration_result
           adjusted == adjust_cw_balance_in_setup_data(rr_balance, r.decided_accounts,
                                                       r.disqualified_accounts)
       IN
        /\ job.completion = "Continue"
        /\ r.remaining_accounts # <<>>
        /\ adjusted >= 0
        /\ rr_already' = NextAlreadyFullyQualified(rr_already, r.decided_accounts)
        /\ rr_balance' = adjusted
        /\ rr_gas_opt' = None
        /\ rr_payables' = r.remaining_accounts
        /\ disqualified_log' = disqualified_log \cup DisqualifiedWallets(r)
        /\ prioritized_log' = prioritized_log \cup r.prioritized
    /\ rr_depth' = rr_depth + 1
    /\ UNCHANGED <<qualified_payables, cw_masq_balance, adjustment, adj_pc,
                   adjusted_accounts>>
    /\ UNCHANGED <<autoVars, searchVars>>

\* run_recursively panics: todo!() of the unservable setup, or the budget
\* subtraction overflows
RunRecursivelyPanics ==
    /\ adj_pc = "running"
    /\ LET job == CurrentJob
           r == job.iteration_result
       IN
        \/ job.completion = "Panic"
        \/ /\ job.completion = "Continue"
           /\ r.remaining_accounts # <<>>
           /\ adjust_cw_balance_in_setup_data(rr_balance, r.decided_accounts,
                                              r.disqualified_accounts) < 0
    /\ adj_pc' = "panicked"
    /\ rr_depth' = rr_depth + 1
    /\ UNCHANGED <<qualified_payables, cw_masq_balance, adjustment, rr_already,
                   rr_balance, rr_gas_opt, rr_payables, adjusted_accounts,
                   disqualified_log, prioritized_log>>
    /\ UNCHANGED <<autoVars, searchVars>>

\* ------------------------------------------------------------------------
\* Automap: data
\* ------------------------------------------------------------------------
Ports == {6666}
Handlers == {"handler_a", "handler_b"}
\* Box::new(Self::null_change_handler)
NullHandler == "null_change_handler"

Min(a, b) == IF a <= b THEN a ELSE b

\* Duration::from_secs, in milliseconds
from_secs(secs) == secs * 1000

ChangeHandlerConfig(hole_port, next_lifetime, remap_interval) ==
    [hole_port |-> hole_port, next_lifetime |-> next_lifetime,
     remap_interval |-> remap_interval]

\* what comes back for one mapping request: nothing in time, or a packet
ApprovingReply(lifetime) ==
    [outcome |-> "Packet", direction |-> "Response", opcode |-> "Map",
     nonce_matches |-> TRUE, result_code |-> "Success", lifetime |-> lifetime]

Replies ==
    {ApprovingReply(l) : l \in 0..MaxLifetime}
        \cup {[ApprovingReply(MaxLifetime) EXCEPT !.nonce_matches = FALSE],
              [ApprovingReply(0) EXCEPT !.direction = "Request"],
              [ApprovingReply(0) EXCEPT !.opcode = "Other"],
              [ApprovingReply(0) EXCEPT !.result_code = "AddressMismatch"],
              [ApprovingReply(0) EXCEPT !.outcome = "Timeout"]}

\* the replies tried on delete_mapping: what a router sends back on a request
\* for lifetime 0
DeleteReplies == {reply \in Replies : reply.lifetime = 0}

\* the replies tried on the housekeeping thread's transactions: the shortest and
\* the longest approved lifetime, a refusal and a timeout
ThreadReplies ==
    {reply \in Replies :
        /\ reply.direction = "Response" /\ reply.opcode = "Map" /\ reply.nonce_matches
        /\ reply.lifetime \in {0, MaxLifetime}}

\* result_code_opt of a parsed packet: requests carry none
result_code_opt(reply) ==
    IF reply.direction = "Request" THEN None ELSE Some(reply.result_code)

\* what recv_from on the announcement socket returns
RecvOutcomes ==
    {[kind |-> "timeout", src |-> "none", content |-> "none"],
     [kind |-> "io_error", src |-> "none", content |-> "none"]}
        \cup {[kind |-> "datagram", src |-> "router", content |-> c] :
                 c \in {"announce", "other_opcode", "garbage"}}
        \cup {[kind |-> "datagram", src |-> "other", content |-> "announce"]}

\* HousekeepingThreadCommand
StopCommand == [cmd |-> "Stop", ms |-> 0]
SetRemapIntervalMs(ms) == [cmd |-> "SetRemapIntervalMs", ms |-> ms]
Commands == {StopCommand, SetRemapIntervalMs(500)}

\* time that can pass during one loop iteration, and the cap of the elapsed time
Elapses == {0, 1000}
ElapsedCap == ((MaxLifetime \div 2) + 1) * 1000

\* ------------------------------------------------------------------------
\* Automap: mapping transactions
\* ------------------------------------------------------------------------
TransactionErrorResettingInterval(config, error) ==
    [ok |-> FALSE, approved |-> 0, error |-> error,
     config |-> [config EXCEPT !.remap_interval = 0]]

\* a transaction that failed with the given error: the config is not touched
TransactionError(config, error) ==
    [ok |-> FALSE, approved |-> 0, error |-> error, config |-> config]

\* pcp.rs MappingTransactorReal::mapping_transaction with compute_mapping_result;
\* the mapping nonce of the response is not compared with the one sent
mapping_transaction(config, reply) ==
    IF reply.outcome # "Packet" THEN TransactionError(config, "Timed out")
    ELSE IF reply.direction # "Response"
    THEN TransactionError(config, "Map response labeled as request")
    ELSE IF reply.opcode # "Map"
    THEN TransactionError(config, "Map response has other opcode")
    ELSE IF reply.result_code # "Success"
    THEN TransactionError(config, reply.result_code)
    ELSE [ok |-> TRUE, approved |-> reply.lifetime, error |-> "",
          config |-> [config EXCEPT
                        !.next_lifetime = from_secs(reply.lifetime),
                        !.remap_interval = from_secs(reply.lifetime \div 2)]]

\* pmp.rs MappingAdderReal::add_mapping (PMP packets carry no nonce)
mapping_adder_add_mapping(config, reply) ==
    IF reply.outcome # "Packet" THEN TransactionError(config, "Timed out")
    ELSE IF reply.direction = "Request"
    THEN TransactionError(config, "Map response labeled as request")
    ELSE IF reply.opcode # "Map"
    THEN TransactionError(config, "Expected MapTcp response")
    ELSE IF reply.result_code # "Success"
    THEN TransactionError(config, reply.result_code)
    ELSE [ok |-> TRUE, approved |-> reply.lifetime, error |-> "",
          config |-> [config EXCEPT
                        !.next_lifetime = from_secs(reply.lifetime),
                        !.remap_interval = from_secs(reply.lifetime \div 2)]]

\* the mapping transaction behind the facade's add_mapping
FacadeTransaction(config, reply) ==
    IF protocol = "PCP" THEN mapping_transaction(config, reply)
    ELSE mapping_adder_add_mapping(config, reply)

\* ChangeHandlerConfig::next_lifetime_secs: the lifetime put into a request
next_lifetime_secs(config) == config.next_lifetime \div 1000

\* pcp.rs PcpTransactor::remap_port, the config it hands to the transaction
pcp_remap_config(config, requested_lifetime) ==
    LET secs == requested_lifetime \div 1000
        requested_lifetime_secs == IF secs < 1 THEN 1 ELSE secs
    IN  [config EXCEPT !.next_lifetime = from_secs(requested_lifetime_secs)]

\* pcp.rs PcpTransactor::remap_port
pcp_remap_port(config, requested_lifetime, reply) ==
    mapping_transaction(pcp_remap_config(config, requested_lifetime), reply)

\* pmp.rs PmpTransactor::remap_port, the config it hands to the transaction
pmp_remap_config(config) ==
    IF config.next_lifetime < 1000 THEN [config EXCEPT !.next_lifetime = 1000]
    ELSE config

\* pmp.rs PmpTransactor::remap_port
pmp_remap_port(config, reply) ==
    mapping_adder_add_mapping(pmp_remap_config(config), reply)

\* pcp.rs PcpTransactor::handle_announcement: the transaction, then the change handler
pcp_handle_announcement(config, reply) ==
    LET result == mapping_transaction(config, reply)
    IN  [ok |-> result.ok, approved |-> result.approved, config |-> result.config,
         call |-> IF result.ok THEN "NewIp" ELSE "Error"]

\* pmp.rs PmpTransactor::handle_announcement: its own MapTcp request through
\* transact; only the result code of the response is looked at
pmp_handle_announcement(config, reply) ==
    LET success == reply.outcome = "Packet" /\ result_code_opt(reply) = Some("Success")
    IN  [ok |-> success, approved |-> IF success THEN reply.lifetime ELSE 0,
         config |-> config, call |-> IF success THEN "NewIp" ELSE "Error"]

\* handle_announcement reporting NewIp whatever the transaction returned
handle_announcement_reporting_new_ip(config, reply) ==
    [(IF protocol = "PCP" THEN pcp_handle_announcement(config, reply)
      ELSE pmp_handle_announcement(config, reply)) EXCEPT !.call = "NewIp"]

handle_announcement(config, reply) ==
    IF protocol = "PCP" THEN pcp_handle_announcement(config, reply)
    ELSE pmp_handle_announcement(config, reply)

\* the lifetime in the request of handle_announcement: the config's, as it is
announcement_requested_lifetime(config) == next_lifetime_secs(config)

\* the lifetime in the request of a timer-triggered remap: the config's after
\* remap_port has raised it to one second
remap_requested_lifetime(config) ==
    IF protocol = "PCP"
    THEN next_lifetime_secs(pcp_remap_config(config, config.next_lifetime))
    ELSE next_lifetime_secs(pmp_remap_config(config))

remap_port(config, reply) ==
    IF protocol = "PCP" THEN pcp_remap_port(config, config.next_lifetime, reply)
    ELSE pmp_remap_port(config, reply)

\* ------------------------------------------------------------------------
\* Automap: the facade (impl Transactor)
\* ------------------------------------------------------------------------
InitAutomapVars ==
    /\ protocol \in {"PCP", "PMP"}
    /\ change_handler_config_opt = None
    /\ housekeeper_commander_opt = FALSE
    /\ join_handle_opt = FALSE
    /\ caller_pc = "idle"
    /\ last_facade_txn = None
    /\ last_start = None
    /\ last_stop = None
    /\ started_handler = NullHandler
    /\ start_outstanding = FALSE
    /\ add_mapping_succeeded = FALSE
    /\ abandoned_threads = 0
    /\ thread_state = "none"
    /\ th_config = ChangeHandlerConfig(0, 0, 0)
    /\ th_handler = NullHandler
    /\ since_last_remapped = 0
    /\ cmd_channel = <<>>
    /\ last_iter = None

IdleAutomap ==
    /\ protocol = "PCP"
    /\ change_handler_config_opt = None
    /\ housekeeper_commander_opt = FALSE
    /\ join_handle_opt = FALSE
    /\ caller_pc = "idle"
    /\ last_facade_txn = None
    /\ last_start = None
    /\ last_stop = None
    /\ started_handler = NullHandler
    /\ start_outstanding = FALSE
    /\ add_mapping_succeeded = FALSE
    /\ abandoned_threads = 0
    /\ thread_state = "none"
    /\ th_config = ChangeHandlerConfig(0, 0, 0)
    /\ th_handler = NullHandler
    /\ since_last_remapped = 0
    /\ cmd_channel = <<>>
    /\ last_iter = None

\* the receiving end of the command channel lives as long as the thread's closure
ReceiverAlive == thread_state \in {"spawned", "running"}

\* what is remembered of one mapping transaction: the reply it got, its outcome
\* and the MappingConfig before and after it
TxnRecord(result, config_before, reply) ==
    [ok |-> result.ok, approved |-> result.approved, config |-> result.config,
     config_before |-> config_before, reply |-> reply]

FacadeTxnRecord(op, result, reply) ==
    [op |-> op, ok |-> result.ok, approved |-> result.approved,
     config |-> result.config, stored_before |-> change_handler_config_opt,
     reply |-> reply]

\* Transactor::add_mapping
AddMapping ==
    /\ caller_pc = "idle"
    /\ \E hole_port \in Ports, lifetime \in {MaxLifetime}, reply \in Replies :
        LET result == FacadeTransaction(
                          ChangeHandlerConfig(hole_port, from_secs(lifetime), from_secs(0)),
                          reply)
        IN  /\ change_handler_config_opt' =
                   IF result.ok THEN Some(result.config) ELSE change_handler_config_opt
            /\ add_mapping_succeeded' = (add_mapping_succeeded \/ result.ok)
            /\ last_facade_txn' = Some(FacadeTxnRecord("add_mapping", result, reply))
    /\ last_start' = None /\ last_stop' = None /\ last_iter' = None
    /\ UNCHANGED <<protocol, housekeeper_commander_opt, join_handle_opt, caller_pc,
                   started_handler, start_outstanding, abandoned_threads, thread_state,
                   th_config, th_handler, since_last_remapped, cmd_channel>>
    /\ UNCHANGED <<adjVars, searchVars>>

\* Transactor::delete_mapping: PCP runs the transaction on a throw-away config,
\* PMP calls its own add_mapping with lifetime 0
DeleteMapping ==
    /\ caller_pc = "idle"
    /\ \E hole_port \in Ports, reply \in DeleteReplies :
        LET result == FacadeTransaction(
                          ChangeHandlerConfig(hole_port, from_secs(0), from_secs(0)), reply)
        IN  /\ change_handler_config_opt' =
                   IF protocol = "PMP" /\ result.ok THEN Some(result.config)
                   ELSE change_handler_config_opt
            /\ UNCHANGED add_mapping_succeeded
            /\ last_facade_txn' = Some(FacadeTxnRecord("delete_mapping", result, reply))
    /\ last_start' = None /\ last_stop' = None /\ last_iter' = None
    /\ UNCHANGED <<protocol, housekeeper_commander_opt, join_handle_opt, caller_pc,
                   started_handler, start_outstanding, abandoned_threads, thread_state,
                   th_config, th_handler, since_last_remapped, cmd_channel>>
    /\ UNCHANGED <<adjVars, searchVars>>

\* Transactor::get_public_ip: a transaction of its own, nothing of the
\* Transactor is written whatever the router answers
GetPublicIp ==
    /\ caller_pc = "idle"
    /\ last_facade_txn' = None /\ last_start' = None /\ last_stop' = None
    /\ last_iter' = None
    /\ UNCHANGED <<protocol, change_handler_config_opt, housekeeper_commander_opt,
                   join_handle_opt, caller_pc, started_handler, start_outstanding,
                   add_mapping_succeeded, abandoned_threads, thread_state, th_config,
                   th_handler, since_last_remapped, cmd_channel>>
    /\ UNCHANGED <<adjVars, searchVars>>

\* `if let Some(_) = &self.housekeeper_commander_opt`
commander_is_never_populated(commander_opt) == FALSE

commander_is_populated(commander_opt) == commander_opt

StartResult(result, spawned) ==
    [result |-> result, spawned |-> spawned,
     outstanding_before |-> start_outstanding,
     previous_thread |-> thread_state,
     add_mapping_succeeded |-> add_mapping_succeeded]

\* Transactor::start_housekeeping_thread
StartHousekeepingThread ==
    /\ caller_pc = "idle"
    /\ \E change_handler \in Handlers, socket_ok \in BOOLEAN :
        LET error == IF commander_is_populated(housekeeper_commander_opt)
                     THEN "ChangeHandlerAlreadyRunning"
                     ELSE IF change_handler_config_opt = None
                     THEN "ChangeHandlerUnconfigured"
                     ELSE IF ~socket_ok THEN "SocketBindingError"
                     ELSE "none"
        IN  IF error # "none"
            THEN /\ last_start' = Some(StartResult(error, FALSE))
                 /\ UNCHANGED <<housekeeper_commander_opt, join_handle_opt,
                                started_handler, start_outstanding, abandoned_threads,
                                thread_state, th_config, th_handler,
                                since_last_remapped, cmd_channel>>
            ELSE /\ last_start' = Some(StartResult("Ok", TRUE))
                 /\ housekeeper_commander_opt' = TRUE
                 /\ join_handle_opt' = TRUE
                 /\ started_handler' = change_handler
                 /\ start_outstanding' = TRUE
                 /\ abandoned_threads' =
                        abandoned_threads + (IF ReceiverAlive THEN 1 ELSE 0)
                 /\ thread_state' = "spawned"
                 /\ th_config' = change_handler_config_opt[1]
                 /\ th_handler' = change_handler
                 /\ since_last_remapped' = 0
                 /\ cmd_channel' = <<>>
    /\ last_facade_txn' = None /\ last_stop' = None /\ last_iter' = None
    /\ UNCHANGED <<protocol, change_handler_config_opt, caller_pc, add_mapping_succeeded>>
    /\ UNCHANGED <<adjVars, searchVars>>

\* the message of `.expect(..)` on housekeeper_commander_opt.take()
NoHousekeepingCommander == "No HousekeepingCommander: can't stop housekeeping thread"

\* housekeeper_commander_opt.take().expect(..) goes through: there is a commander
commander_taken_or_missing(commander_opt) == TRUE

commander_taken(commander_opt) == commander_opt

\* Transactor::stop_housekeeping_thread up to the join: the commander is taken, or
\* the caller panics for want of one; Stop is sent, and the send fails when the
\* receiver is gone
StopHousekeepingThread ==
    /\ caller_pc = "idle"
    /\ housekeeper_commander_opt' = FALSE
    /\ start_outstanding' = FALSE
    /\ IF ~commander_taken(housekeeper_commander_opt)
       THEN /\ caller_pc' = NoHousekeepingCommander
            /\ last_stop' = None
            /\ UNCHANGED <<cmd_channel, join_handle_opt>>
       ELSE IF ReceiverAlive
       THEN /\ cmd_channel' = Append(cmd_channel, StopCommand)
            /\ join_handle_opt' = FALSE
            /\ caller_pc' = "joining"
            /\ last_stop' = None
       ELSE /\ last_stop' = Some([sent |-> FALSE, joined |-> FALSE,
                                  had_commander |-> housekeeper_commander_opt,
                                  change_handler |-> NullHandler,
                                  warning |-> "had already disconnected"])
            /\ UNCHANGED <<cmd_channel, join_handle_opt, caller_pc>>
    /\ last_facade_txn' = None /\ last_start' = None /\ last_iter' = None
    /\ UNCHANGED <<protocol, change_handler_config_opt, started_handler,
                   add_mapping_succeeded, abandoned_threads, thread_state, th_config,
                   th_handler, since_last_remapped>>
    /\ UNCHANGED <<adjVars, searchVars>>

\* what join_handle.join() makes of the thread's end
JoinedHandlerAlwaysNull(state, change_handler) == NullHandler

JoinedHandlerIgnoringPanic(state, change_handler) == change_handler

JoinedHandler(state, change_handler) ==
    IF state = "finished" THEN change_handler ELSE NullHandler

JoinWarning(state) == IF state = "finished" THEN "none" ELSE "had panicked"

\* join_handle.join() returns only when the thread function has returned or
\* panicked
thread_is_over_or_not(state) == TRUE

thread_is_over(state) == state \in {"finished", "panicked"}

\* Transactor::stop_housekeeping_thread, the join: returns once the thread is over
StopHousekeepingThreadJoin ==
    /\ caller_pc = "joining"
    /\ thread_is_over(thread_state)
    /\ last_stop' = Some([sent |-> TRUE, joined |-> TRUE, had_commander |-> TRUE,
                          change_handler |-> JoinedHandler(thread_state, th_handler),
                          warning |-> JoinWarning(thread_state)])
    /\ caller_pc' = "idle"
    /\ last_facade_txn' = None /\ last_start' = None /\ last_iter' = None
    /\ UNCHANGED <<protocol, change_handler_config_opt, housekeeper_commander_opt,
                   join_handle_opt, started_handler, start_outstanding,
                   add_mapping_succeeded, abandoned_threads, thread_state, th_config,
                   th_handler, since_last_remapped, cmd_channel>>
    /\ UNCHANGED <<adjVars, searchVars>>

\* a command sent through the Sender that start_housekeeping_thread returned
SendCommand ==
    /\ ReceiverAlive
    /\ Len(cmd_channel) < MaxQueue
    /\ \E command \in Commands : cmd_channel' = Append(cmd_channel, command)
    /\ last_facade_txn' = None /\ last_start' = None /\ last_stop' = None
    /\ last_iter' = None
    /\ UNCHANGED <<protocol, change_handler_config_opt, housekeeper_commander_opt,
                   join_handle_opt, caller_pc, started_handler, start_outstanding,
                   add_mapping_succeeded, abandoned_threads, thread_state, th_config,
                   th_handler, since_last_remapped>>
    /\ UNCHANGED <<adjVars, searchVars>>


\* ------------------------------------------------------------------------
\* Automap: the housekeeping thread (thread_guts)
\* ------------------------------------------------------------------------
\* sender_address.ip() == router_addr.ip()
is_from_anybody(recv) == TRUE

is_from_router(recv) == recv.src = "router"

\* what the receive step writes to the log about what recv_from returned:
\* pcp.rs logs a receive error and an unparseable packet and has no else-branch
\* for a parsed packet of another opcode; parse_buffer of pmp.rs logs every
\* packet it rejects
receive_log(recv) ==
    IF recv.kind = "io_error" THEN "Error receiving PCP packet from router"
    ELSE IF recv.kind # "datagram" \/ ~is_from_router(recv) THEN "none"
    ELSE IF recv.content = "garbage"
    THEN (IF protocol = "PCP" THEN "Unparseable PCP packet"
          ELSE "Unparseable PMP packet")
    ELSE IF recv.content = "other_opcode" /\ protocol = "PMP"
    THEN "Unexpected PMP response (instead of Get)"
    ELSE "none"

\* the datagram is one the loop hands to handle_announcement: PCP Announce
\* opcode / PMP Get response that parse_buffer accepts
is_any_router_datagram(recv) == recv.kind = "datagram" /\ is_from_router(recv)

is_announcement(recv) ==
    recv.kind = "datagram" /\ is_from_router(recv) /\ recv.content = "announce"

\* the receive step ends the iteration: `continue` in pcp.rs, check_for_announcement
\* returning true in pmp.rs
iteration_cut_short(recv) ==
    /\ recv.kind = "datagram"
    /\ \/ ~is_from_router(recv)
       \/ protocol = "PMP" /\ recv.content # "announce"

\* the head of thread_guts: last_remapped = now, set_read_timeout(..).expect(..)
ThreadStart ==
    /\ thread_state = "spawned"
    /\ \E set_read_timeout_ok \in BOOLEAN :
        IF set_read_timeout_ok
        THEN /\ thread_state' = "running"
             /\ UNCHANGED cmd_channel
        ELSE /\ thread_state' = "panicked"
             /\ cmd_channel' = <<>>
    /\ since_last_remapped' = 0
    /\ last_facade_txn' = None /\ last_start' = None /\ last_stop' = None
    /\ last_iter' = None
    /\ UNCHANGED <<protocol, change_handler_config_opt, housekeeper_commander_opt,
                   join_handle_opt, caller_pc, started_handler, start_outstanding,
                   add_mapping_succeeded, abandoned_threads, th_config, th_handler>>
    /\ UNCHANGED <<adjVars, searchVars>>

NoReply == [ApprovingReply(0) EXCEPT !.outcome = "Timeout"]

\* what the thread does for an announcement, in program order: pcp.rs takes the
\* guard `inner` before handle_announcement and drops it after it returned;
\* pmp.rs calls handle_announcement without the mapping_adder mutex
announcement_steps ==
    IF protocol = "PCP"
    THEN <<"lock", "mapping_transaction", "change_handler", "unlock">>
    ELSE <<"mapping_transaction", "change_handler">>

\* what the thread does for a due remap, in program order: the guard (`inner`,
\* `mapping_adder`) lives to the end of the if-block, the failure is reported to
\* the change handler inside it
remap_steps(ok) ==
    <<"lock", "mapping_transaction">>
        \o (IF ok THEN <<>> ELSE <<"change_handler">>)
        \o <<"unlock">>

\* rx.try_recv() on the unbounded channel: the oldest waiting command, if any
try_recv_newest(channel) ==
    IF channel = <<>> THEN None ELSE Some(channel[Len(channel)])

try_recv(channel) == IF channel = <<>> THEN None ELSE Some(Head(channel))

\* the match on rx.try_recv(): only Stop leaves the loop
keeps_looping_without_command(command_opt) == command_opt = None

keeps_looping(command_opt) == command_opt # Some(StopCommand)

\* one pass through the loop of thread_guts: receive, remap check, command poll
HousekeepingIteration ==
    /\ thread_state = "running"
    /\ \E recv \in RecvOutcomes, elapse \in Elapses :
        LET elapsed == Min(since_last_remapped + elapse, ElapsedCap)
            announced == is_announcement(recv)
            cut_short == iteration_cut_short(recv)
        IN  \E announcement_reply \in (IF announced THEN ThreadReplies ELSE {NoReply}) :
            LET announcement == handle_announcement(th_config, announcement_reply)
                config_1 == IF announced THEN announcement.config ELSE th_config
                remap_due == ~cut_short /\ elapsed > config_1.remap_interval
            IN  \E remap_reply \in (IF remap_due THEN ThreadReplies ELSE {NoReply}) :
                LET remap == remap_port(config_1, remap_reply)
                    config_2 == IF remap_due THEN remap.config ELSE config_1
                    command_opt == IF ~cut_short THEN try_recv(cmd_channel) ELSE None
                    stop == ~keeps_looping(command_opt)
                    config_3 == IF command_opt # None
                                   /\ command_opt[1].cmd = "SetRemapIntervalMs"
                                THEN [config_2 EXCEPT !.remap_interval = command_opt[1].ms]
                                ELSE config_2
                IN  /\ th_config' = config_3
                    /\ since_last_remapped' = IF remap_due THEN 0 ELSE elapsed
                    /\ cmd_channel' = IF stop THEN <<>>
                                      ELSE IF command_opt # None THEN Tail(cmd_channel)
                                      ELSE cmd_channel
                    /\ thread_state' = IF stop THEN "finished" ELSE "running"
                    /\ last_iter' = Some(
                         [recv |-> recv,
                          stop_pending |-> (cmd_channel # <<>>
                                              /\ Head(cmd_channel) = StopCommand),
                          config_changed |-> config_3 # th_config,
                          announcement |->
                              IF announced
                              THEN Some(TxnRecord(announcement, th_config,
                                                  announcement_reply))
                              ELSE None,
                          remap |-> IF remap_due
                                    THEN Some(TxnRecord(remap, config_1, remap_reply))
                                    ELSE None,
                          handler_calls |->
                              (IF announced THEN <<announcement.call>> ELSE <<>>)
                                  \o (IF remap_due /\ ~remap.ok THEN <<"Error">> ELSE <<>>),
                          remap_checked |-> ~cut_short,
                          last_remapped_reset |-> remap_due,
                          polled |-> ~cut_short,
                          command |-> command_opt,
                          channel_before |-> cmd_channel,
                          timer_expired |-> elapsed > config_1.remap_interval,
                          requested_lifetimes |->
                              (IF announced
                               THEN <<announcement_requested_lifetime(th_config)>>
                               ELSE <<>>)
                                  \o (IF remap_due
                                      THEN <<remap_requested_lifetime(config_1)>>
                                      ELSE <<>>),
                          logged |-> receive_log(recv),
                          interval_before |-> th_config.remap_interval,
                          steps |->
                              <<"recv_from">>
                                  \o (IF announced THEN announcement_steps ELSE <<>>)
                                  \o (IF remap_due THEN remap_steps(remap.ok) ELSE <<>>)
                                  \o (IF cut_short THEN <<>> ELSE <<"try_recv">>),
                          exited |-> stop])
    /\ last_facade_txn' = None /\ last_start' = None /\ last_stop' = None
    /\ UNCHANGED <<protocol, change_handler_config_opt, housekeeper_commander_opt,
                   join_handle_opt, caller_pc, started_handler, start_outstanding,
                   add_mapping_succeeded, abandoned_threads, th_handler>>
    /\ UNCHANGED <<adjVars, searchVars>>

\* ------------------------------------------------------------------------
\* Specifications
\* ------------------------------------------------------------------------
NextAutomap ==
    \/ GetPublicIp
    \/ AddMapping
    \/ DeleteMapping
    \/ StartHousekeepingThread
    \/ StopHousekeepingThread
    \/ StopHousekeepingThreadJoin
    \/ SendCommand
    \/ ThreadStart
    \/ HousekeepingIteration

InitAutomap == IdleAdjuster /\ InitAutomapVars /\ IdleSearch

SpecAutomap == InitAutomap /\ [][NextAutomap]_vars

InitAdjuster == InitAdjusterVars /\ IdleAutomap /\ IdleSearch

NextAdjuster ==
    \/ RunRecursivelyFinished
    \/ RunRecursivelyReturns
    \/ RunRecursivelyRecurses
    \/ RunRecursivelyPanics


SpecAdjuster == InitAdjuster /\ [][NextAdjuster]_vars

InitSearch == InitSearchVars /\ IdleAutomap

NextSearch == SearchForIndispensableAdjustment

SpecSearch == InitSearch /\ [][NextSearch]_vars

\* ------------------------------------------------------------------------
\* Payment adjuster: properties
\* ------------------------------------------------------------------------
OriginalBalance(wallet) ==
    (CHOOSE a \in Range(qualified_payables) : a.wallet = wallet).balance_wei

OutputWallets == {a.wallet : a \in Range(adjusted_accounts)}

\* the setup is one the pre-adjustment check hands over to adjust_payments: a
\* transaction count limit, or debts above the balance that can cover the smallest
PassedPreCheck ==
    \/ adjustment # None
    \/ check_need_of_masq_balances_adjustment(qualified_payables, cw_masq_balance) = "true"

\* C2: the balances of the accounts returned by adjust_payments sum up to no more
\* than the service fee balance of the consuming wallet given in the setup
C2_OutputSumWithinBalance ==
    adj_pc = "done" => sum_as_balances(adjusted_accounts) <= cw_masq_balance

C2_Witness ==
    /\ adj_pc = "done"
    /\ PassedPreCheck
    /\ rr_depth >= 2
    /\ prioritized_log # {}
    /\ Len(adjusted_accounts) >= 2
    /\ \E a \in Range(adjusted_accounts) : a.balance_wei < OriginalBalance(a.wallet)
    /\ sum_as_balances(adjusted_accounts) = cw_masq_balance

\* C6: every account returned by adjust_payments has at least half of the balance
\* it had in the input
C6_OutputAtLeastHalf ==
    adj_pc = "done" =>
        \A a \in Range(adjusted_accounts) : 2 * a.balance_wei >= OriginalBalance(a.wallet)

C6_Witness ==
    /\ adj_pc = "done"
    /\ PassedPreCheck
    /\ Len(adjusted_accounts) >= 2
    /\ \E a \in Range(adjusted_accounts) :
          /\ a.balance_wei < OriginalBalance(a.wallet)
          /\ 2 * a.balance_wei = OriginalBalance(a.wallet)

\* C7: no account returned by adjust_payments has a balance greater than the
\* balance it had in the input (checked on the setups that passed the
\* pre-adjustment check)
C7_OutputNeverAboveOriginal ==
    (adj_pc = "done" /\ PassedPreCheck) =>
        \A a \in Range(adjusted_accounts) : a.balance_wei <= OriginalBalance(a.wallet)

\* C8: an account disqualified in some iteration of a run is not in the output
C8_DisqualifiedNotInOutput ==
    adj_pc = "done" => OutputWallets \cap disqualified_log = {}

C8_Witness ==
    /\ adj_pc = "done"
    /\ PassedPreCheck
    /\ disqualified_log # {}
    /\ adjusted_accounts # <<>>
    /\ rr_depth >= 2

\* C9: every account selected by the priority override is in the output of the
\* run with its original balance (checked on the setups that passed the
\* pre-adjustment check)
C9_PrioritizedPaidInFull ==
    (adj_pc = "done" /\ PassedPreCheck) =>
        \A w \in prioritized_log :
            \E a \in Range(adjusted_accounts) :
                a.wallet = w /\ a.balance_wei = OriginalBalance(w)

\* ------------------------------------------------------------------------
\* Automap: properties
\* ------------------------------------------------------------------------
\* a recorded mapping transaction that succeeded with approved lifetime L left
\* next_lifetime = L s and remap_interval = (L / 2) s in the config it used
LifetimeAndIntervalSet(txn_opt) ==
    txn_opt # None /\ txn_opt[1].ok
        => /\ txn_opt[1].config.next_lifetime = from_secs(txn_opt[1].approved)
           /\ txn_opt[1].config.remap_interval = from_secs(txn_opt[1].approved \div 2)

\* C1: every successful mapping transaction with approved lifetime L (a facade
\* add_mapping, a timer-triggered remap, an announcement-triggered remap, PCP and
\* PMP) leaves next_lifetime = L and remap_interval = L / 2 in the config used.
C1_SuccessfulTransactionSetsLifetimeAndInterval ==
    /\ (last_facade_txn # None /\ last_facade_txn[1].op = "add_mapping"
            => LifetimeAndIntervalSet(last_facade_txn))
    /\ (last_iter # None
            => /\ LifetimeAndIntervalSet(last_iter[1].announcement)
               /\ LifetimeAndIntervalSet(last_iter[1].remap))

\* C3: an iteration that starts with Stop waiting on the command channel ends
\* the loop, whatever the announcement socket delivered in that iteration.
C3_StopHonoredWithinOneIteration ==
    last_iter # None /\ last_iter[1].stop_pending => last_iter[1].exited

\* C4: every loop iteration performs the remap-timer check after the receive
\* attempt, whatever the receive attempt returned.
C4_RemapCheckedInEveryIteration ==
    last_iter # None => last_iter[1].remap_checked

\* C5: an iteration whose datagram came from an address other than the router's
\* leaves the housekeeper's config and last_remapped alone, runs no mapping
\* transaction and does not call the change handler.
C5_ForeignDatagramChangesNothing ==
    last_iter # None /\ last_iter[1].recv.kind = "datagram"
                     /\ last_iter[1].recv.src # "router"
        => /\ ~last_iter[1].config_changed
           /\ ~last_iter[1].last_remapped_reset
           /\ last_iter[1].announcement = None
           /\ last_iter[1].remap = None
           /\ last_iter[1].handler_calls = <<>>

\* a foreign datagram that looks like an announcement arrived while a remap was
\* due, and the iteration did nothing with it
C5_Witness ==
    /\ last_iter # None
    /\ last_iter[1].recv = [kind |-> "datagram", src |-> "other", content |-> "announce"]
    /\ since_last_remapped > th_config.remap_interval
    /\ last_iter[1].handler_calls = <<>>
    /\ thread_state = "running"

\* C10: a stop_housekeeping_thread whose Stop was delivered has joined the
\* thread, and when the thread ended by returning it hands back the change
\* handler given to the matching start_housekeeping_thread.
C10_StopReturnsOriginalHandler ==
    last_stop # None /\ last_stop[1].sent
        => /\ last_stop[1].joined
           /\ thread_state \in {"finished", "panicked"}
           /\ ~housekeeper_commander_opt
           /\ ~join_handle_opt
           /\ (thread_state = "finished"
                  => last_stop[1].change_handler = started_handler)

C10_Witness ==
    /\ last_stop # None
    /\ last_stop[1].sent
    /\ last_stop[1].joined
    /\ thread_state = "finished"
    /\ started_handler \in Handlers
    /\ last_stop[1].change_handler = started_handler


\* C11: a start_housekeeping_thread called while an earlier successful start has
\* not been followed by a stop fails with ChangeHandlerAlreadyRunning and spawns
\* no thread.
C11_SecondStartIsRefused ==
    last_start # None /\ last_start[1].outstanding_before
        => /\ last_start[1].result = "ChangeHandlerAlreadyRunning"
           /\ ~last_start[1].spawned
           /\ abandoned_threads = 0

C11_Witness ==
    /\ last_start # None
    /\ last_start[1].outstanding_before
    /\ last_start[1].result = "ChangeHandlerAlreadyRunning"
    /\ thread_state = "running"
    /\ housekeeper_commander_opt


\* C12: as long as no add_mapping call has succeeded on the Transactor, a
\* start_housekeeping_thread fails with ChangeHandlerUnconfigured and spawns no
\* thread, whatever get_public_ip, delete_mapping and failed add_mapping calls
\* came before.
C12_StartNeedsSuccessfulAddMapping ==
    last_start # None /\ ~last_start[1].add_mapping_succeeded
        => /\ last_start[1].result = "ChangeHandlerUnconfigured"
           /\ ~last_start[1].spawned


\* C13: a stop_housekeeping_thread that finds the command channel broken, or
\* whose thread has panicked, returns the null change handler with a warning
\* logged, and it returns: it is not left waiting for the thread.
C13_BrokenStopReturnsNullHandler ==
    /\ (last_stop # None /\ (~last_stop[1].sent \/ thread_state = "panicked")
            => /\ last_stop[1].change_handler = NullHandler
               /\ last_stop[1].warning # "none"
               /\ caller_pc = "idle")
    /\ (caller_pc = "joining" /\ thread_state = "panicked"
            => ENABLED StopHousekeepingThreadJoin)

\* Stop was sent to a live thread, which then panicked before reading it
C13_Witness ==
    /\ last_stop # None
    /\ last_stop[1].sent
    /\ thread_state = "panicked"
    /\ started_handler \in Handlers
    /\ last_stop[1].change_handler = NullHandler


\* the MappingConfig a failed housekeeping transaction left behind is the one it
\* found
FailedTxnKeptConfig(txn_opt) ==
    txn_opt # None /\ ~txn_opt[1].ok => txn_opt[1].config = txn_opt[1].config_before

\* C14 as stated: a failed mapping transaction (facade add_mapping, announcement
\* remap, timer remap) leaves hole_port, next_lifetime and remap_interval of the
\* MappingConfig as they were before the call.
C14_FailedTransactionKeepsConfig ==
    /\ (last_facade_txn # None /\ ~last_facade_txn[1].ok
            => change_handler_config_opt = last_facade_txn[1].stored_before)
    /\ (last_iter # None
            => /\ FailedTxnKeptConfig(last_iter[1].announcement)
               /\ FailedTxnKeptConfig(last_iter[1].remap))

\* C14 amended: as C14, except that a failed timer remap of a config whose
\* next_lifetime was below one second leaves next_lifetime at one second.
C14_FailedTransactionKeepsConfigButForClamp ==
    /\ (last_facade_txn # None /\ ~last_facade_txn[1].ok
            => change_handler_config_opt = last_facade_txn[1].stored_before)
    /\ (last_iter # None
            => /\ FailedTxnKeptConfig(last_iter[1].announcement)
               /\ (last_iter[1].remap # None /\ ~last_iter[1].remap[1].ok
                      => LET before == last_iter[1].remap[1].config_before
                         IN  last_iter[1].remap[1].config =
                                IF before.next_lifetime < 1000
                                THEN [before EXCEPT !.next_lifetime = 1000]
                                ELSE before))

\* a timer remap failed on a config with a remap interval and a lifetime of its own
C14_Witness ==
    /\ last_iter # None
    /\ last_iter[1].remap # None
    /\ ~last_iter[1].remap[1].ok
    /\ last_iter[1].remap[1].config_before.remap_interval > 0
    /\ last_iter[1].remap[1].config_before.next_lifetime >= 1000
    /\ th_config = last_iter[1].remap[1].config_before


\* the response a PCP transaction accepted was a Map response carrying the nonce
\* of the request
AcceptedOnlyValidResponse(txn_opt) ==
    txn_opt # None
        => LET reply == txn_opt[1].reply
               valid == /\ reply.outcome = "Packet"
                        /\ reply.direction = "Response"
                        /\ reply.opcode = "Map"
                        /\ reply.nonce_matches
           IN  ~valid => ~txn_opt[1].ok

\* C15: a PCP mapping transaction succeeds, and updates the MappingConfig, only
\* on a response whose direction is Response, whose opcode is Map and whose
\* mapping nonce is the one sent in the request.
C15_PcpAcceptsOnlyMatchingMapResponse ==
    protocol = "PCP"
        => /\ AcceptedOnlyValidResponse(last_facade_txn)
           /\ (last_facade_txn # None /\ last_facade_txn[1].op = "add_mapping"
                   /\ ~last_facade_txn[1].reply.nonce_matches
                  => change_handler_config_opt = last_facade_txn[1].stored_before)
           /\ (last_iter # None
                  => /\ AcceptedOnlyValidResponse(last_iter[1].announcement)
                     /\ AcceptedOnlyValidResponse(last_iter[1].remap))


\* C16: a loop iteration ends the housekeeping thread only when it has read a
\* Stop command; whatever the receive attempt and the transactions returned,
\* the thread otherwise goes on to the next iteration, and a failed timer remap
\* is handed to the change handler as an Error.
C16_LoopEndsOnlyOnStop ==
    last_iter # None
        => /\ thread_state \in {"running", "finished"}
           /\ (thread_state = "finished" <=> last_iter[1].command = Some(StopCommand))
           /\ (last_iter[1].remap # None /\ ~last_iter[1].remap[1].ok
                  => /\ last_iter[1].handler_calls # <<>>
                     /\ last_iter[1].handler_calls[Len(last_iter[1].handler_calls)]
                            = "Error")

\* the receive failed, the remap failed, a command other than Stop was read
C16_Witness ==
    /\ last_iter # None
    /\ last_iter[1].recv.kind = "io_error"
    /\ last_iter[1].remap # None
    /\ ~last_iter[1].remap[1].ok
    /\ last_iter[1].command = Some(SetRemapIntervalMs(500))
    /\ last_iter[1].handler_calls = <<"Error">>
    /\ thread_state = "running"


\* housekeeping threads of this Transactor that have not returned or panicked:
\* the one start_housekeeping_thread spawned last and those spawned before it
\* that were still alive when it was spawned
alive_threads == abandoned_threads + (IF ReceiverAlive THEN 1 ELSE 0)

\* C17: whatever sequence of start_housekeeping_thread and
\* stop_housekeeping_thread calls is made (refused starts and stops that return
\* the null handler included), a Transactor never has more than one
\* housekeeping thread alive.
C17_AtMostOneThreadAlive == alive_threads <= 1

\* a thread was started, stopped and joined, and a second one is now alive
C17_Witness ==
    /\ last_start # None
    /\ last_start[1].result = "Ok"
    /\ last_start[1].previous_thread = "finished"
    /\ alive_threads = 1


\* C18: the MappingConfig of the Transactor and the one the housekeeping thread
\* works on are one shared object: as long as the thread lives, a write to
\* next_lifetime or remap_interval by either side is seen by the other, so both
\* sides read the same values.
C18_ConfigSharedWithHousekeeper ==
    ReceiverAlive => change_handler_config_opt = Some(th_config)


\* the mutex guard taken at an earlier step is still alive at step i
mutex_held_at(steps, i) ==
    \E j \in 1..(i - 1) :
        /\ steps[j] = "lock"
        /\ \A k \in (j + 1)..(i - 1) : steps[k] # "unlock"

\* C19: the housekeeping thread holds the state mutex only while it performs a
\* mapping transaction: not while it waits on the announcement socket and not
\* while the change handler runs.
C19_MutexHeldOnlyAcrossTransaction ==
    last_iter # None
        => \A i \in DOMAIN last_iter[1].steps :
               mutex_held_at(last_iter[1].steps, i)
                   => last_iter[1].steps[i] \in {"mapping_transaction", "unlock"}


\* the last mapping transaction of the iteration that succeeded, if any
last_successful_transaction(iter) ==
    IF iter.remap # None /\ iter.remap[1].ok THEN iter.remap
    ELSE IF iter.announcement # None /\ iter.announcement[1].ok THEN iter.announcement
    ELSE None

\* C20: an iteration that begins with the remap interval a SetRemapIntervalMs(500)
\* command has set and reads no further such command leaves the interval at
\* 500 ms if none of its mapping transactions succeeded, and at half the
\* approved lifetime of its last successful transaction otherwise.
C20_CommandIntervalLastsUntilSuccessfulTransaction ==
    /\ last_iter # None
    /\ last_iter[1].interval_before = SetRemapIntervalMs(500).ms
    /\ (last_iter[1].command = None \/ last_iter[1].command = Some(StopCommand))
    => LET txn_opt == last_successful_transaction(last_iter[1])
       IN  th_config.remap_interval =
               IF txn_opt = None THEN SetRemapIntervalMs(500).ms
               ELSE from_secs(txn_opt[1].approved \div 2)


\* the iteration received a datagram from the router that is unparseable or of
\* another kind than the announcement
GotNonAnnouncementFromRouter ==
    /\ last_iter # None
    /\ last_iter[1].recv.kind = "datagram"
    /\ last_iter[1].recv.src = "router"
    /\ last_iter[1].recv.content # "announce"

\* the datagram of the iteration made the thread perform no mapping transaction
\* and call the change handler for nothing but a failed timer remap
DatagramIgnored ==
    /\ last_iter[1].announcement = None
    /\ last_iter[1].handler_calls =
           IF last_iter[1].remap # None /\ ~last_iter[1].remap[1].ok
           THEN <<"Error">> ELSE <<>>
    /\ ~last_iter[1].config_changed \/ last_iter[1].remap # None
           \/ last_iter[1].command # None

\* C21: a datagram from the router that cannot be parsed or is not an
\* announcement is logged and ignored: no mapping transaction and no call of
\* the change handler come of it.
C21_NonAnnouncementLoggedAndIgnored ==
    GotNonAnnouncementFromRouter
        => DatagramIgnored /\ last_iter[1].logged # "none"

\* C21 as amended: such a datagram is ignored; it is logged unless it is a
\* well-formed PCP packet of another opcode than Announce.
C21_NonAnnouncementIgnoredAndLoggedButForPcpOpcode ==
    GotNonAnnouncementFromRouter
        => /\ DatagramIgnored
           /\ (last_iter[1].logged = "none"
                  <=> protocol = "PCP" /\ last_iter[1].recv.content = "other_opcode")

\* an unparseable packet from the router arrived while no remap was due
C21_Witness ==
    /\ GotNonAnnouncementFromRouter
    /\ last_iter[1].recv.content = "garbage"
    /\ last_iter[1].logged = "Unparseable PCP packet"
    /\ last_iter[1].remap = None
    /\ last_iter[1].handler_calls = <<>>


\* ------------------------------------------------------------------------
\* Pre-adjustment check: properties
\* ------------------------------------------------------------------------
\* max_tx: how many transactions the transaction fee balance pays for
max_tx ==
    gas_currency_wei
        \div gwei_to_wei(estimated_gas_limit_per_transaction * desired_gas_price_gwei)

\* C22: when the transaction fee balance does not pay for one transaction, the
\* check returns the error TransactionFeeBalanceBelowOneTransaction with the
\* requirement of one transaction and the balance, never Ok.
C22_NoTransactionAffordableIsAnError ==
    (search_pc # "ready" /\ max_tx = 0)
        => /\ search_pc = "returned"
           /\ search_result[1].kind = "Err"
           /\ search_result[1].error =
                  [name |-> "TransactionFeeBalanceBelowOneTransaction",
                   one_transaction_requirement |->
                       estimated_gas_limit_per_transaction * desired_gas_price_gwei,
                   cw_balance |-> wei_to_gwei(gas_currency_wei)]

\* a balance of half the requirement of one transaction, debts within the
\* service fee balance
C22_Witness ==
    /\ search_pc = "returned"
    /\ max_tx = 0
    /\ gas_currency_wei > 0
    /\ sum_as_balances(qualified_payables) <= cw_masq_balance
    /\ search_result[1].kind = "Err"


\* C23: when the transaction fee balance pays for at least one but not for all
\* of the n transactions, the check returns the transaction-fee-first
\* adjustment with the limit max_tx, whatever the service fee balance is.
C23_FewerTransactionsAffordableLimitsTheCount ==
    (search_pc # "ready" /\ 1 <= max_tx /\ max_tx < Len(qualified_payables))
        => /\ search_pc = "returned"
           /\ search_result[1] =
                  [kind |-> "Ok",
                   adjustment_opt |-> Some([name |-> "TransactionFeeFirstLaterMaybeMasq",
                                            limited_count_from_gas |-> max_tx])]

\* two of three transactions affordable while the service fee balance is short
C23_Witness ==
    /\ search_pc = "returned"
    /\ max_tx = 2
    /\ Len(qualified_payables) = 3
    /\ sum_as_balances(qualified_payables) > cw_masq_balance
    /\ search_result[1].kind = "Ok"
    /\ search_result[1].adjustment_opt # None
    /\ search_result[1].adjustment_opt[1].limited_count_from_gas = 2

\* C24: when the debts total more than the service fee balance and even the
\* smallest debt exceeds it, the pre-adjustment check returns the error
\* ServiceFeeBalanceBelowSmallestDebt.
C24_UnservableSetupIsAnError ==
    (/\ search_pc # "ready"
     /\ max_tx >= Len(qualified_payables)
     /\ sum_as_balances(qualified_payables) > cw_masq_balance
     /\ find_smallest_debt(qualified_payables) > cw_masq_balance)
        => /\ search_pc = "returned"
           /\ search_result[1].kind = "Err"
           /\ search_result[1].error.name = "ServiceFeeBalanceBelowSmallestDebt"

\* C25: when the transaction fee balance pays for all n transactions
\* (max_tx >= n), the check returns no adjustment exactly when the debts total
\* no more than the service fee balance, and the service-fee adjustment exactly
\* when they total more and the smallest debt does not exceed the balance.
C25_ServiceFeeDecidesWhenAllTransactionsAffordable ==
    (search_pc # "ready" /\ max_tx >= Len(qualified_payables))
        => LET T == sum_as_balances(qualified_payables)
               B == cw_masq_balance
               result == search_result[1]
           IN  /\ (result = [kind |-> "Ok", adjustment_opt |-> None] <=> T <= B)
               /\ (result = [kind |-> "Ok",
                             adjustment_opt |-> Some([name |-> "MasqToken"])]
                      <=> (T > B /\ find_smallest_debt(qualified_payables) <= B))

\* exactly n transactions affordable and the debts total exactly the balance
C25_Witness ==
    /\ search_pc = "returned"
    /\ max_tx = Len(qualified_payables)
    /\ Len(qualified_payables) >= 2
    /\ sum_as_balances(qualified_payables) = cw_masq_balance
    /\ search_result[1] = [kind |-> "Ok", adjustment_opt |-> None]


\* the run is over and the debts of its input total no more than the service
\* fee balance of its setup
DoneWithSufficientBalance ==
    /\ adj_pc = "done"
    /\ PassedPreCheck
    /\ sum_as_balances(qualified_payables) <= cw_masq_balance

\* C26: a run of adjust_payments whose input accounts total no more than the
\* service fee balance returns the input accounts, none dropped and none
\* changed.
C26_SufficientBalanceReturnsInput ==
    DoneWithSufficientBalance
        => Range(adjusted_accounts) = Range(qualified_payables)

\* C26 as amended: such a run returns input accounts with their balances
\* unchanged, as many of them as the transaction count limit allows.
C26_SufficientBalanceReturnsInputUpToCountLimit ==
    DoneWithSufficientBalance
        => /\ Range(adjusted_accounts) \subseteq Range(qualified_payables)
           /\ Len(adjusted_accounts) = Cardinality(Range(adjusted_accounts))
           /\ Len(adjusted_accounts) =
                  IF adjustment = None THEN Len(qualified_payables)
                  ELSE Min(adjustment[1], Len(qualified_payables))

\* three accounts within the balance, two transactions affordable
C26_Witness ==
    /\ DoneWithSufficientBalance
    /\ Len(qualified_payables) = 3
    /\ adjustment = Some(2)
    /\ Len(adjusted_accounts) = 2
    /\ sum_as_balances(qualified_payables) = cw_masq_balance


\* C27: every run of adjust_payments comes to an end: it makes no more calls of
\* run_recursively than it has input accounts, because every call gets at least
\* one account less than the call that made it (the accounts of the pending
\* call and the calls made so far never number more than the input accounts),
\* and the job of a pending call is one run_recursively completes, recurses on
\* or panics on.
C27_RecursionTerminates ==
    /\ rr_depth <= Len(qualified_payables)
    /\ adj_pc = "running"
           => /\ Len(rr_payables) + rr_depth <= Len(qualified_payables)
              /\ rr_balance <= cw_masq_balance
              /\ CurrentJob.completion \in {"Finished", "Continue", "Panic"}

\* a run that needed as many calls as it has accounts
C27_Witness ==
    /\ adj_pc = "done"
    /\ PassedPreCheck
    /\ Len(qualified_payables) = 3
    /\ rr_depth = 3


\* the weight apply_criteria gives to the input account of this wallet
WeightOf(wallet) == WithCriteria(qualified_payables[wallet]).criteria

\* the wallets of the limit heaviest input accounts, an account going before
\* the accounts of the same weight that come after it in the input
HeaviestWallets(limit) ==
    {i \in DOMAIN qualified_payables :
        Cardinality({j \in DOMAIN qualified_payables :
                        \/ WeightOf(j) > WeightOf(i)
                        \/ WeightOf(j) = WeightOf(i) /\ j < i}) < limit}

\* C28: a run with a transaction count limit N returns at most N accounts, all
\* of them among the N heaviest input accounts; when these N total no more than
\* the service fee balance, it returns exactly these N with their original
\* balances.
C28_CountLimitKeepsHeaviestAccounts ==
    (adj_pc = "done" /\ adjustment # None)
        => LET heaviest == HeaviestWallets(adjustment[1])
               heaviest_accounts == {qualified_payables[i] : i \in heaviest}
           IN  /\ Len(adjusted_accounts) <= adjustment[1]
               /\ OutputWallets \subseteq heaviest
               /\ (SumInts([i \in DOMAIN qualified_payables |->
                               IF i \in heaviest
                               THEN qualified_payables[i].balance_wei ELSE 0])
                       <= cw_masq_balance
                    => /\ Range(adjusted_accounts) = heaviest_accounts
                       /\ Len(adjusted_accounts) = adjustment[1])

\* two of three accounts may be paid, the second and the third weigh the same
\* and less than the first, and the two heaviest are within the balance
C28_Witness ==
    /\ adj_pc = "done"
    /\ adjustment = Some(2)
    /\ Len(qualified_payables) = 3
    /\ WeightOf(2) = WeightOf(3)
    /\ WeightOf(1) > WeightOf(2)
    /\ OutputWallets = {1, 2}
    /\ sum_as_balances(adjusted_accounts) <= cw_masq_balance
    /\ sum_as_balances(qualified_payables) > cw_masq_balance


\* the pending call of run_recursively is about to recurse
AboutToRecurse ==
    /\ adj_pc = "running"
    /\ CurrentJob.completion = "Continue"
    /\ CurrentJob.iteration_result.remaining_accounts # <<>>

\* C29: on the setups the pre-adjustment check lets through, the service fee
\* balance handed to a recursive call (the balance of the call less the
\* original balances of the disqualified accounts, or less the balances of the
\* accounts the priority override pays in full) is never below zero.
C29_RemainingBalanceNeverNegative ==
    (PassedPreCheck /\ AboutToRecurse)
        => adjust_cw_balance_in_setup_data(
               rr_balance, CurrentJob.iteration_result.decided_accounts,
               CurrentJob.iteration_result.disqualified_accounts) >= 0


\* C30: stop_housekeeping_thread returns the change handler given to
\* start_housekeeping_thread whenever the thread has ended by reading a Stop
\* command, whoever sent it; it returns the null handler only when the thread
\* has panicked.
C30_NormallyEndedThreadGivesHandlerBack ==
    last_stop # None
        => /\ (thread_state = "finished"
                  => last_stop[1].change_handler = started_handler)
           /\ (last_stop[1].change_handler = NullHandler
                  => thread_state = "panicked")


\* C31: start_housekeeping_thread answers ChangeHandlerAlreadyRunning only while
\* a housekeeping thread of the Transactor is alive, and between the calls of
\* the facade the command sender is stored exactly while the thread is alive,
\* however the thread came to its end.
C31_AlreadyRunningOnlyWhileThreadAlive ==
    /\ (last_start # None /\ last_start[1].result = "ChangeHandlerAlreadyRunning"
            => last_start[1].previous_thread \in {"spawned", "running"})
    /\ (caller_pc = "idle" => (housekeeper_commander_opt <=> ReceiverAlive))


\* C32: a loop iteration sends the timer-triggered mapping request exactly when
\* the time since last_remapped exceeds remap_interval, and last_remapped is
\* reset after the request whether it succeeded or failed.
C32_TimerRemapExactlyWhenIntervalExceeded ==
    last_iter # None
        => /\ (last_iter[1].remap # None <=> last_iter[1].timer_expired)
           /\ (last_iter[1].remap # None
                  => /\ last_iter[1].last_remapped_reset
                     /\ since_last_remapped = 0)


\* the reply is one that makes a remap succeed
RemapSucceeded(reply) ==
    /\ reply.outcome = "Packet"
    /\ reply.direction = "Response"
    /\ reply.opcode = "Map"
    /\ reply.result_code = "Success"

CountOf(seq, x) == Cardinality({i \in DOMAIN seq : seq[i] = x})

FirstIndexOf(seq, x) ==
    CHOOSE i \in DOMAIN seq : seq[i] = x /\ \A j \in 1..(i - 1) : seq[j] # x

PolledInOrder(iter) ==
    /\ iter.command = (IF iter.channel_before = <<>> THEN None
                       ELSE Some(Head(iter.channel_before)))
    /\ (~iter.exited
           => cmd_channel = (IF iter.channel_before = <<>> THEN <<>>
                             ELSE Tail(iter.channel_before)))

C35_DeleteAndGetPublicIpKeepConfig ==
    [][(DeleteMapping \/ GetPublicIp) => UNCHANGED change_handler_config_opt]_vars


\* C36: every mapping request of the housekeeping thread, for the timer and
\* for an announcement, asks for a lifetime of at least one second.
C36_HousekeepingNeverRequestsLifetimeZero ==
    last_iter # None
        => \A i \in DOMAIN last_iter[1].requested_lifetimes :
              last_iter[1].requested_lifetimes[i] >= 1


\* the weighted accounts the pending call of run_recursively hands to
\* handle_masq_token_adjustment
PendingAccounts ==
    IF rr_gas_opt # None
    THEN cut_back_by_gas_count_limit(apply_criteria(rr_payables), rr_gas_opt[1])
    ELSE apply_criteria(rr_payables)

\* C37: when the pending iteration disqualifies accounts and others remain, it
\* decides no account, the remaining accounts are the other accounts with
\* their original balances, and the budget of the next iteration is the budget
\* of this one less the original balances of the disqualified accounts, which
\* the budget can bear.
C37_DisqualifyingIterationRevertsAndShrinksBudget ==
    (PassedPreCheck /\ AboutToRecurse
        /\ CurrentJob.iteration_result.disqualified_accounts # <<>>)
        => LET r == CurrentJob.iteration_result
               budget == adjust_cw_balance_in_setup_data(
                             rr_balance, r.decided_accounts, r.disqualified_accounts)
           IN  /\ r.decided_accounts = <<>>
               /\ {a.wallet : a \in Range(r.remaining_accounts)} =
                      {wa.account.wallet : wa \in Range(PendingAccounts)}
                          \ DisqualifiedWallets(r)
               /\ \A a \in Range(r.remaining_accounts) :
                      a.balance_wei = OriginalBalance(a.wallet)
               /\ budget = rr_balance
                              - SumSeq(r.disqualified_accounts,
                                       LAMBDA d : OriginalBalance(d.wallet))
               /\ budget >= 0


\* C38: the proportional allocation of the pending call (the call goes on to
\* handle_masq_token_adjustment and no account is prioritized) disqualifies an
\* account exactly when twice its proposed balance is less than its original
\* balance, and keeps it with the proposed balance otherwise: exactly half is
\* kept.
C38_DisqualifiedExactlyBelowHalf ==
    adj_pc = "running"
        => LET accounts == PendingAccounts
               totals == compute_totals(accounts)
               adjustment_goes_on ==
                   \/ rr_gas_opt = None
                   \/ check_need_of_masq_balances_adjustment(
                          rebuild_accounts(accounts), rr_balance) = "true"
               prioritized_wallets ==
                   check_for_prioritized_accounts_that_qualify_without_prolongation(
                       accounts, totals.required_balance_total, totals.criteria_total)
               allocation == recreate_accounts_with_proportioned_balances(
                                 accounts, rr_balance, totals.criteria_total)
           IN  (adjustment_goes_on /\ prioritized_wallets = {})
                  => \A i \in DOMAIN accounts :
                        LET original == accounts[i].account.balance_wei
                            proposed == ProposedFor(accounts[i], rr_balance,
                                                    totals.criteria_total)
                            below_half == 2 * proposed < original
                        IN  /\ below_half
                                   <=> \E d \in Range(allocation.disqualified) :
                                          /\ d.wallet = accounts[i].account.wallet
                                          /\ d.original_balance = original
                            /\ ~below_half
                                   <=> \E d \in Range(allocation.decided) :
                                          /\ d.adjusted_account.wallet
                                                 = accounts[i].account.wallet
                                          /\ d.adjusted_account.balance_wei = proposed
                                          /\ d.former_balance = original

\* what the proportional allocation of the first call made of the input
FirstAllocation ==
    recreate_accounts_with_proportioned_balances(
        apply_criteria(qualified_payables), cw_masq_balance,
        compute_totals(apply_criteria(qualified_payables)).criteria_total)

\* after the first iteration: one account was proposed exactly half of its
\* balance and is carried on, another was proposed one unit less than half of
\* its balance and was disqualified
C38_Witness ==
    /\ rr_depth = 1
    /\ adj_pc = "running"
    /\ adjustment = None
    /\ PassedPreCheck
    /\ prioritized_log = {}
    /\ \E kept \in Range(FirstAllocation.decided),
          dropped \in Range(FirstAllocation.disqualified) :
            /\ 2 * kept.adjusted_account.balance_wei = kept.former_balance
            /\ 2 * (dropped.proposed_adjusted_balance + 1) = dropped.original_balance
            /\ dropped.wallet \in disqualified_log
            /\ \E a \in Range(rr_payables) :
                   /\ a.wallet = kept.adjusted_account.wallet
                   /\ a.balance_wei = kept.former_balance


\* C39: a stop_housekeeping_thread that returned a handler found a command
\* sender stored; called without one (never started, or stopped before) it
\* panics with the 'No HousekeepingCommander' message.
C39_StopWithoutCommanderPanics ==
    /\ (last_stop # None => last_stop[1].had_commander)
    /\ (caller_pc \notin {"idle", "joining"}
            => /\ caller_pc = NoHousekeepingCommander
               /\ ~housekeeper_commander_opt
               /\ last_stop = None)

\* the second of two stop_housekeeping_thread calls: the first one joined the
\* thread
C39_Witness ==
    /\ caller_pc = NoHousekeepingCommander
    /\ thread_state = "finished"
    /\ ~join_handle_opt
    /\ started_handler \in Handlers

====
